---- MODULE Spec2Model ----
(***************************************************************************)
(* Model of src/ocr/python/ocr_client.py: MeditrailOCRClient.__init__ and  *)
(* MeditrailOCRClient.process_document, together with the file system and  *)
(* the HTTP transport (requests.post) the method talks to.                 *)
(*                                                                         *)
(* One invocation of process_document is split at the two places where it  *)
(* touches the outside world: the local checks and open() (lines 55-76),   *)
(* requests.post (lines 79-88) and the status mapping with its except and  *)
(* finally clauses (lines 91-120).                                         *)
(***************************************************************************)
EXTENDS Integers, Sequences, FiniteSets

VARIABLES
    api_key,        \* self.api_key
    base_url,       \* self.base_url (after rstrip)
    headers,        \* self.headers
    pc,             \* position of the caller: idle, opened, responded, done
    file_path,      \* argument file_path
    text,           \* argument text
    system_prompt,  \* argument system_prompt
    files,          \* local `files`: name and state of the opened handle
    data,           \* local `data`: the form fields
    requests,       \* requests the transport has received in this invocation
    response,       \* local `response`
    outcome,        \* what the invocation gave back to the caller
    prev            \* the previous finished invocation: inputs, reply, outcome

vars == <<api_key, base_url, headers, pc, file_path, text, system_prompt,
          files, data, requests, response, outcome, prev>>

config == <<api_key, base_url, headers>>

-----------------------------------------------------------------------------
(* Bounds                                                                  *)

MaxTrailingSlashes == 2

-----------------------------------------------------------------------------
(* Python values and exceptions                                            *)

None == "None"

PyNone == [t |-> "NoneType", s |-> "", items |-> <<>>]
PyStr(s) == [t |-> "str", s |-> s, items |-> <<>>]
PyList == [t |-> "list", s |-> "", items |-> <<>>]
PyDict(items) == [t |-> "dict", s |-> "", items |-> items]

\* isinstance(v, dict)
IsDict(v) == v.t = "dict"

\* position of key k in the dict's items, 0 when absent
DictIndex(d, k) ==
    IF \E i \in 1..Len(d.items) : d.items[i][1] = k
    THEN CHOOSE i \in 1..Len(d.items) : d.items[i][1] = k
    ELSE 0

\* d.get(k, default)
DictGet(d, k, default) ==
    IF DictIndex(d, k) = 0 THEN default ELSE d.items[DictIndex(d, k)][2]

\* d[k] = v : overwrite in place, or append (dicts keep insertion order)
DictSet(d, k, v) ==
    IF DictIndex(d, k) = 0
    THEN PyDict(Append(d.items, <<k, v>>))
    ELSE PyDict([d.items EXCEPT ![DictIndex(d, k)] = <<k, v>>])

\* the text an f-string puts in for {v}, as a sequence of fragments
RECURSIVE FormatItems(_, _)
FormatValue(v) ==
    CASE v.t = "str" -> <<v.s>>
      [] v.t = "NoneType" -> <<"None">>
      [] v.t = "list" -> <<"[]">>
      [] OTHER -> <<"{">> \o FormatItems(v.items, 1) \o <<"}">>
FormatItems(items, i) ==
    IF i > Len(items) THEN <<>>
    ELSE <<"'", items[i][1], "': ">> \o
         (IF items[i][2].t = "str" THEN <<"'", items[i][2].s, "'">>
          ELSE <<"{...}">>) \o
         (IF i < Len(items) THEN <<", ">> ELSE <<>>) \o
         FormatItems(items, i + 1)

\* the exception classes involved and their base class
Parent(cls) ==
    CASE cls = "FileNotFoundError" -> "OSError"
      [] cls = "PermissionError" -> "OSError"
      [] cls = "IsADirectoryError" -> "OSError"
      [] cls = "RequestException" -> "OSError"
      [] cls = "HTTPError" -> "RequestException"
      [] cls = "Timeout" -> "RequestException"
      [] cls = "ReadTimeout" -> "Timeout"
      [] cls = "ConnectionError" -> "RequestException"
      [] cls = "TooManyRedirects" -> "RequestException"
      [] cls = "JSONDecodeError" -> "ValueError"
      [] cls = "OSError" -> "Exception"
      [] cls = "ValueError" -> "Exception"
      [] cls = "AttributeError" -> "Exception"
      [] OTHER -> "BaseException"

\* isinstance(e, cls): what an `except cls` clause catches
RECURSIVE IsSubclass(_, _)
IsSubclass(c, cls) ==
    IF c = cls THEN TRUE
    ELSE IF c = "BaseException" THEN FALSE
    ELSE IsSubclass(Parent(c), cls)

NoOutcome == [kind |-> "none", value |-> PyNone, cls |-> "", msg |-> <<>>, num |-> 0]
Return(v) == [kind |-> "return", value |-> v, cls |-> "", msg |-> <<>>, num |-> 0]
Raise(cls, msg, num) == [kind |-> "raise", value |-> PyNone, cls |-> cls, msg |-> msg, num |-> num]

-----------------------------------------------------------------------------
(* The file system: os.path.exists, os.path.getsize, open, basename        *)

SizeLimit == 50 * 1024 * 1024

Missing == [kind |-> "missing", size |-> 0, readable |-> FALSE]
RegularFile(size, readable) == [kind |-> "file", size |-> size, readable |-> readable]
Directory == [kind |-> "dir", size |-> 4096, readable |-> TRUE]

Paths == { <<"missing.pdf">>,
           <<"sample_files">>,
           <<"sample_files", "chest_xray.jpg">>,
           <<"sample_files", "exact_limit.pdf">>,
           <<"sample_files", "huge_scan.pdf">>,
           <<"sample_files", "locked.pdf">> }

FileSystem(p) ==
    CASE p = <<"sample_files">> -> Directory
      [] p = <<"sample_files", "chest_xray.jpg">> -> RegularFile(2048, TRUE)
      [] p = <<"sample_files", "exact_limit.pdf">> -> RegularFile(SizeLimit, TRUE)
      [] p = <<"sample_files", "huge_scan.pdf">> -> RegularFile(SizeLimit + 1, TRUE)
      [] p = <<"sample_files", "locked.pdf">> -> RegularFile(2048, FALSE)
      [] OTHER -> Missing

\* os.path.exists(file_path)
os_path_exists(p) == FileSystem(p).kind # "missing"

\* os.path.getsize(file_path)
os_path_getsize(p) == FileSystem(p).size

\* os.path.basename(file_path)
os_path_basename(p) == p[Len(p)]

\* file_size / (1024*1024) formatted with :.2f, in hundredths of a MiB
FormatMB(size) ==
    (size \div (1024 * 1024)) * 100
    + ((size % (1024 * 1024)) * 100 + (1024 * 1024) \div 2) \div (1024 * 1024)

\* the exception open(file_path, 'rb') raises, "" when it succeeds
OpenError(p) ==
    CASE FileSystem(p).kind = "missing" -> "FileNotFoundError"
      [] FileSystem(p).kind = "dir" -> "IsADirectoryError"
      [] ~FileSystem(p).readable -> "PermissionError"
      [] OTHER -> ""

NoFiles == [name |-> "", fp |-> "none"]

\* files['file'][1].close()
Close(f) == IF f.fp = "open" THEN [f EXCEPT !.fp = "closed"] ELSE f

-----------------------------------------------------------------------------
(* JSON on the wire and response.json()                                    *)

JString(s) == [t |-> "string", s |-> s, members |-> <<>>]
JArray == [t |-> "array", s |-> "", members |-> <<>>]
JObject(members) == [t |-> "object", s |-> "", members |-> members]
Member(name, value) == [name |-> name, value |-> value]

\* a body that is not JSON (an HTML error page, an empty body)
NotJson == [valid |-> FALSE, doc |-> JArray]
Json(doc) == [valid |-> TRUE, doc |-> doc]

\* json.loads of a parsed document: objects become dicts, member by member
RECURSIVE json_loads(_)
RECURSIVE LoadMembers(_, _, _)
json_loads(doc) ==
    CASE doc.t = "string" -> PyStr(doc.s)
      [] doc.t = "array" -> PyList
      [] OTHER -> LoadMembers(doc.members, 1, PyDict(<<>>))
LoadMembers(members, i, d) ==
    IF i > Len(members) THEN d
    ELSE LoadMembers(members, i + 1,
                     DictSet(d, members[i].name, json_loads(members[i].value)))

Bodies == { NotJson,
            Json(JArray),
            Json(JObject(<<>>)),
            Json(JObject(<<Member("detail", JString("x"))>>)),
            Json(JObject(<<Member("detail", JObject(<<>>))>>)),
            Json(JObject(<<Member("detail",
                     JObject(<<Member("message", JString("limit hit"))>>))>>)),
            Json(JObject(<<Member("id", JString("doc-1")),
                           Member("response", JString("{}")),
                           Member("metadata",
                     JObject(<<Member("page_count", JString("2"))>>))>>)) }

StatusCodes == {200, 204, 304, 400, 404, 413, 429, 500, 503}

TransportErrors == {"ReadTimeout", "ConnectionError", "TooManyRedirects"}

NoReply == [kind |-> "none", status |-> 0, body |-> NotJson, cls |-> ""]
Response(status, body) == [kind |-> "response", status |-> status, body |-> body, cls |-> ""]
TransportError(cls) == [kind |-> "error", status |-> 0, body |-> NotJson, cls |-> cls]

Replies == { Response(st, b) : st \in StatusCodes, b \in Bodies }
           \cup { TransportError(c) : c \in TransportErrors }

-----------------------------------------------------------------------------
(* MeditrailOCRClient.__init__                                             *)

ApiKeys == {"mt_key"}

DefaultBaseUrl == <<"https://meditrail.unitedwecare.com/api/v1">>

RECURSIVE Slashes(_)
Slashes(n) == IF n = 0 THEN <<>> ELSE <<"/">> \o Slashes(n - 1)

\* the base_url arguments tried: the default, with 0..MaxTrailingSlashes slashes added
BaseUrls == { DefaultBaseUrl \o Slashes(n) : n \in 0..MaxTrailingSlashes }

\* base_url.rstrip('/')
RECURSIVE rstrip(_)
rstrip(u) ==
    IF Len(u) > 0 /\ u[Len(u)] = "/" THEN rstrip(SubSeq(u, 1, Len(u) - 1)) ELSE u

\* self.headers = {'X-API-Key': api_key}
MakeHeaders(key) == PyDict(<< <<"X-API-Key", PyStr(key)>> >>)

-----------------------------------------------------------------------------
(* MeditrailOCRClient.process_document                                     *)

Texts == {None, "", "Chest X-ray examination"}
Prompts == {None, "Extract key clinical findings"}

\* `if text:` : None and the empty string are false
Truthy(x) == x # None /\ x # ""

\* the local checks without the size check
ValidateNoSizeCheck(p) ==
    IF ~os_path_exists(p)
    THEN Raise("FileNotFoundError", <<"File not found: ">> \o p, 0)
    ELSE NoOutcome

\* the local checks reporting a missing file as a ValueError
ValidateWrongClass(p) ==
    IF ~os_path_exists(p)
    THEN Raise("ValueError", <<"File not found: ">> \o p, 0)
    ELSE IF os_path_getsize(p) > SizeLimit
    THEN Raise("ValueError", <<"File too large: ", "{:.2f}", "MB (max: 50MB)">>,
               FormatMB(os_path_getsize(p)))
    ELSE NoOutcome

\* lines 55-62: the local checks; NoOutcome when both pass
Validate(p) ==
    IF ~os_path_exists(p)
    THEN Raise("FileNotFoundError", <<"File not found: ">> \o p, 0)
    ELSE IF os_path_getsize(p) > SizeLimit
    THEN Raise("ValueError", <<"File too large: ", "{:.2f}", "MB (max: 50MB)">>,
               FormatMB(os_path_getsize(p)))
    ELSE NoOutcome

\* lines 72-76: the form fields
BuildData(t, sp) ==
    LET d1 == IF Truthy(t) THEN DictSet(PyDict(<<>>), "text", PyStr(t))
              ELSE PyDict(<<>>)
    IN  IF Truthy(sp) THEN DictSet(d1, "system_prompt", PyStr(sp)) ELSE d1

\* lines 65, 79-85: what requests.post is given
MakeRequest(u, h, f, d) ==
    [url |-> u \o <<"/ocr/process">>, headers |-> h, file |-> f.name,
     data |-> d, timeout |-> 60]

\* a post that adds a header to the dict it was handed
PostAddsHeader(h) == DictSet(h, "Content-Type", PyStr("multipart/form-data"))

\* line 81: self.headers is handed to requests.post, which copies it
PostHeaders(h) == h

\* response.raise_for_status(), line 109
raise_for_status(r) ==
    IF 400 <= r.status /\ r.status < 500
    THEN Raise("HTTPError", <<"Client Error">>, r.status)
    ELSE IF 500 <= r.status /\ r.status < 600
    THEN Raise("HTTPError", <<"Server Error">>, r.status)
    ELSE NoOutcome

\* response.json().get('detail', default) wrapped in a message, lines 94-95, 106-107
DetailError(r, prefix, default) ==
    IF ~r.body.valid THEN Raise("JSONDecodeError", <<>>, 0)
    ELSE IF ~IsDict(json_loads(r.body.doc)) THEN Raise("AttributeError", <<"get">>, 0)
    ELSE Raise("RequestException",
               <<prefix>> \o FormatValue(DictGet(json_loads(r.body.doc), "detail",
                                                  PyStr(default))), 0)

\* lines 99-104
UsageLimitError(r) ==
    IF ~r.body.valid THEN Raise("JSONDecodeError", <<>>, 0)
    ELSE IF ~IsDict(json_loads(r.body.doc)) THEN Raise("AttributeError", <<"get">>, 0)
    ELSE LET error_detail == DictGet(json_loads(r.body.doc), "detail", PyDict(<<>>))
         IN  IF IsDict(error_detail)
             THEN Raise("RequestException",
                        <<"Usage limit exceeded: ">> \o
                        FormatValue(DictGet(error_detail, "message",
                                            PyStr("Usage limit exceeded"))), 0)
             ELSE Raise("RequestException", <<"Usage limit exceeded">>, 0)

\* a status mapping that hands back only the `response` field on 200
MapStatusUnwraps(r) ==
    CASE r.status = 200 ->
            IF r.body.valid
            THEN Return(DictGet(json_loads(r.body.doc), "response", PyNone))
            ELSE Raise("JSONDecodeError", <<>>, 0)
      [] r.status = 400 -> DetailError(r, "Bad Request: ", "Bad Request")
      [] r.status = 413 -> Raise("RequestException", <<"File too large (max 50MB)">>, 0)
      [] r.status = 429 -> UsageLimitError(r)
      [] r.status = 500 -> DetailError(r, "Internal Server Error: ", "Internal Server Error")
      [] OTHER -> IF raise_for_status(r).kind = "raise" THEN raise_for_status(r)
                  ELSE Return(PyNone)

\* lines 91-109: the body of the try block after the post; falling off the
\* end of the function returns None
MapStatus(r) ==
    CASE r.status = 200 ->
            IF r.body.valid THEN Return(json_loads(r.body.doc))
            ELSE Raise("JSONDecodeError", <<>>, 0)
      [] r.status = 400 -> DetailError(r, "Bad Request: ", "Bad Request")
      [] r.status = 413 -> Raise("RequestException", <<"File too large (max 50MB)">>, 0)
      [] r.status = 429 -> UsageLimitError(r)
      [] r.status = 500 -> DetailError(r, "Internal Server Error: ", "Internal Server Error")
      [] OTHER -> IF raise_for_status(r).kind = "raise" THEN raise_for_status(r)
                  ELSE Return(PyNone)

\* lines 111-116: the except clauses, tried in order
Except(o) ==
    IF o.kind # "raise" THEN o
    ELSE IF IsSubclass(o.cls, "Timeout")
    THEN Raise("RequestException", <<"Request timed out">>, 0)
    ELSE IF IsSubclass(o.cls, "ConnectionError")
    THEN Raise("RequestException", <<"Connection error">>, 0)
    ELSE IF IsSubclass(o.cls, "JSONDecodeError")
    THEN Raise("RequestException", <<"Invalid JSON response">>, 0)
    ELSE o

\* a finally clause that forgets the handle
FinallyKeepsOpen(f) == f

\* lines 117-120: the finally clause
Finally(f) == IF f.fp # "none" THEN Close(f) ELSE f

NoCall == [file_path |-> <<>>, text |-> None, system_prompt |-> None,
           reply |-> NoReply, outcome |-> NoOutcome]

Init ==
    /\ api_key \in ApiKeys
    /\ base_url \in { rstrip(u) : u \in BaseUrls }
    /\ headers = MakeHeaders(api_key)
    /\ pc = "idle"
    /\ file_path = <<>>
    /\ text = None
    /\ system_prompt = None
    /\ files = NoFiles
    /\ data = PyDict(<<>>)
    /\ requests = <<>>
    /\ response = NoReply
    /\ outcome = NoOutcome
    /\ prev = NoCall

\* lines 55-76: the checks, open() and the form fields
Call(p, t, sp) ==
    /\ pc = "idle"
    /\ file_path' = p
    /\ text' = t
    /\ system_prompt' = sp
    /\ requests' = <<>>
    /\ response' = NoReply
    /\ IF Validate(p).kind = "raise"
       THEN /\ outcome' = Validate(p)
            /\ files' = NoFiles
            /\ data' = PyDict(<<>>)
            /\ pc' = "done"
       ELSE IF OpenError(p) # ""
       THEN /\ outcome' = Raise(OpenError(p), p, 0)
            /\ files' = NoFiles
            /\ data' = PyDict(<<>>)
            /\ pc' = "done"
       ELSE /\ outcome' = NoOutcome
            /\ files' = [name |-> os_path_basename(p), fp |-> "open"]
            /\ data' = BuildData(t, sp)
            /\ pc' = "opened"
    /\ UNCHANGED <<api_key, base_url, headers, prev>>

\* lines 79-88: requests.post answers or raises; on an answer the file is closed
Post(reply) ==
    /\ pc = "opened"
    /\ requests' = Append(requests, MakeRequest(base_url, headers, files, data))
    /\ response' = reply
    /\ IF reply.kind = "error"
       THEN /\ outcome' = Except(Raise(reply.cls, <<>>, 0))
            /\ files' = Finally(files)
            /\ pc' = "done"
       ELSE /\ outcome' = NoOutcome
            /\ files' = Close(files)
            /\ pc' = "responded"
    /\ headers' = PostHeaders(headers)
    /\ UNCHANGED <<api_key, base_url, file_path, text, system_prompt,
                   data, prev>>

\* lines 91-120: the status mapping, the except clauses and the finally clause
HandleResponse ==
    /\ pc = "responded"
    /\ outcome' = Except(MapStatus(response))
    /\ files' = Finally(files)
    /\ pc' = "done"
    /\ UNCHANGED <<api_key, base_url, headers, file_path, text, system_prompt,
                   data, requests, response, prev>>

\* control is back at the caller; the locals of the invocation are gone
Finish ==
    /\ pc = "done"
    /\ prev' = [file_path |-> file_path, text |-> text,
                system_prompt |-> system_prompt, reply |-> response,
                outcome |-> outcome]
    /\ pc' = "idle"
    /\ file_path' = <<>>
    /\ text' = None
    /\ system_prompt' = None
    /\ files' = NoFiles
    /\ data' = PyDict(<<>>)
    /\ requests' = <<>>
    /\ response' = NoReply
    /\ outcome' = NoOutcome
    /\ UNCHANGED <<api_key, base_url, headers>>

Next ==
    \/ \E p \in Paths, t \in Texts, sp \in Prompts : Call(p, t, sp)
    \/ \E reply \in Replies : Post(reply)
    \/ HandleResponse
    \/ Finish

Spec == Init /\ [][Next]_vars

-----------------------------------------------------------------------------
(* Properties                                                              *)

\* the invocation got an answer from the server
Responded == pc = "done" /\ response.kind = "response"

\* the parsed value v has the structure of the JSON document doc
RECURSIVE StructEq(_, _)
StructEq(v, doc) ==
    CASE doc.t = "string" -> v.t = "str" /\ v.s = doc.s
      [] doc.t = "array" -> v.t = "list" /\ Len(v.items) = Len(doc.members)
      [] OTHER -> /\ v.t = "dict"
                  /\ Len(v.items) = Len(doc.members)
                  /\ \A i \in 1..Len(doc.members) :
                        /\ v.items[i][1] = doc.members[i].name
                        /\ StructEq(v.items[i][2], doc.members[i].value)

\* the error kind of the taxonomy a raised exception stands for
TaxonomyKind(o) ==
    CASE o.cls = "FileNotFoundError" -> "FileNotFound"
      [] o.cls = "ValueError" /\ Len(o.msg) > 0 /\ o.msg[1] = "File too large: "
            -> "FileTooLarge"
      [] o.cls = "HTTPError" -> "HttpError"
      [] o.cls = "RequestException" /\ Len(o.msg) > 0 ->
            CASE o.msg[1] = "Bad Request: " -> "BadRequest"
              [] o.msg[1] = "File too large (max 50MB)" -> "FileTooLarge"
              [] o.msg[1] = "Usage limit exceeded: " -> "UsageLimitExceeded"
              [] o.msg[1] = "Usage limit exceeded" -> "UsageLimitExceeded"
              [] o.msg[1] = "Internal Server Error: " -> "ServerError"
              [] o.msg[1] = "Request timed out" -> "Timeout"
              [] o.msg[1] = "Connection error" -> "ConnectionFailed"
              [] o.msg[1] = "Invalid JSON response" -> "InvalidResponse"
              [] OTHER -> "Outside"
      [] OTHER -> "Outside"

\* C1: whenever control is back at the caller (the invocation is done, or the
\* client is idle between invocations), no file handle is open, whichever
\* exit path was taken after open().
C1_HandleClosedOnExit == pc \in {"done", "idle"} => files.fp # "open"

\* an invocation whose post timed out has ended with the handle closed
C1_Witness ==
    /\ pc = "done"
    /\ response.kind = "error"
    /\ response.cls = "ReadTimeout"
    /\ files.fp = "closed"

\* C2: every finished invocation either returned a result (not None) or
\* raised exactly one error of the taxonomy.
C2_ResultOrTypedError ==
    pc = "done" =>
        \/ outcome.kind = "return" /\ outcome.value # PyNone
        \/ outcome.kind = "raise" /\ TaxonomyKind(outcome) # "Outside"

\* C3: every answer whose status is outside 2xx and is none of 400, 413, 429,
\* 500 makes the invocation fail with an HTTPError carrying that status.
C3_OtherStatusIsHttpError ==
    (/\ Responded
     /\ ~(200 <= response.status /\ response.status < 300)
     /\ response.status \notin {400, 413, 429, 500})
    => (outcome.kind = "raise" /\ outcome.cls = "HTTPError"
        /\ outcome.num = response.status)

\* C4: for an existing file larger than 50 MiB the invocation fails with the
\* local file-too-large error and the transport has received no request.
C4_TooLargeBeforeNetwork ==
    (/\ pc = "done"
     /\ FileSystem(file_path).kind # "missing"
     /\ FileSystem(file_path).size > 50 * 1024 * 1024)
    => (/\ outcome.kind = "raise"
        /\ outcome.cls = "ValueError"
        /\ TaxonomyKind(outcome) = "FileTooLarge"
        /\ requests = <<>>)

\* an invocation on a file of 50 MiB + 1 byte has failed
C4_Witness ==
    /\ pc = "done"
    /\ FileSystem(file_path).kind = "file"
    /\ FileSystem(file_path).size = 50 * 1024 * 1024 + 1
    /\ outcome.kind = "raise"

\* C5: for a path that does not exist the invocation fails with
\* FileNotFoundError and the transport has received no request.
C5_MissingIsFileNotFound ==
    (pc = "done" /\ FileSystem(file_path).kind = "missing")
    => (/\ outcome.kind = "raise"
        /\ outcome.cls = "FileNotFoundError"
        /\ requests = <<>>)

\* an invocation on a missing path has failed
C5_Witness ==
    /\ pc = "done"
    /\ FileSystem(file_path).kind = "missing"
    /\ outcome.kind = "raise"

\* C6: for a path that exists but cannot be opened for reading the invocation
\* fails with FileNotFoundError, as for a missing path, and sends no request.
C6_UnreadableIsFileNotFound ==
    (/\ pc = "done"
     /\ FileSystem(file_path).kind # "missing"
     /\ FileSystem(file_path).size <= 50 * 1024 * 1024
     /\ (FileSystem(file_path).kind = "dir" \/ ~FileSystem(file_path).readable))
    => (/\ outcome.kind = "raise"
        /\ outcome.cls = "FileNotFoundError"
        /\ requests = <<>>)

\* C7: the file-too-large failure found locally and the one reported by a 413
\* are one error kind: a handler written for the class of either catches both.
C7_TooLargeOneKind ==
    (/\ Responded
     /\ response.status = 413
     /\ prev.outcome.kind = "raise"
     /\ prev.reply = NoReply
     /\ TaxonomyKind(prev.outcome) = "FileTooLarge")
    => (/\ outcome.kind = "raise"
        /\ \/ IsSubclass(outcome.cls, prev.outcome.cls)
           \/ IsSubclass(prev.outcome.cls, outcome.cls))

\* C8: a 429 whose body is a JSON object makes the invocation fail with the
\* usage-limit error; its message contains detail.message when detail is an
\* object with a message, and is exactly "Usage limit exceeded" otherwise.
C8_UsageLimitMessage ==
    (/\ Responded
     /\ response.status = 429
     /\ response.body.valid
     /\ response.body.doc.t = "object")
    => LET body == json_loads(response.body.doc)
           detail == DictGet(body, "detail", PyNone)
       IN  /\ outcome.kind = "raise"
           /\ TaxonomyKind(outcome) = "UsageLimitExceeded"
           /\ IF IsDict(detail) /\ DictIndex(detail, "message") # 0
              THEN \E i \in 1..Len(outcome.msg) :
                      outcome.msg[i] = DictGet(detail, "message", PyNone).s
              ELSE outcome.msg = <<"Usage limit exceeded">>

\* C9: a 200 answer with a valid JSON body makes the invocation return a
\* value with exactly the structure of that body.
C9_ResultEqualsBody ==
    (Responded /\ response.status = 200 /\ response.body.valid)
    => (outcome.kind = "return" /\ StructEq(outcome.value, response.body.doc))

\* a 200 answer with a three-member object has been returned
C9_Witness ==
    /\ Responded
    /\ response.status = 200
    /\ response.body.valid
    /\ response.body.doc.t = "object"
    /\ Len(response.body.doc.members) = 3
    /\ outcome.kind = "return"

\* C10: no step changes api_key, base_url or headers, and an invocation that
\* finishes with the same arguments and the same transport reply as the
\* previous one finishes with the same outcome.
C10_NoStateBleeds ==
    [][ /\ config' = config
        /\ (/\ pc' = "done"
            /\ prev.file_path = file_path'
            /\ prev.text = text'
            /\ prev.system_prompt = system_prompt'
            /\ prev.reply = response')
           => outcome' = prev.outcome ]_vars

\* an invocation has finished that repeats the previous one, after an answer
C10_Witness ==
    /\ Responded
    /\ prev.file_path = file_path
    /\ prev.text = text
    /\ prev.system_prompt = system_prompt
    /\ prev.reply = response
    /\ outcome = prev.outcome

====
